---- MODULE Spec2Model ----
(***************************************************************************)
(* Model of the tinysoundfont Python binding (src/src/main.cpp): the       *)
(* SoundFont class, whose methods forward to the TinySoundFont engine       *)
(* (tsf/tsf.h).  The methods of SoundFont are modelled from main.cpp; the   *)
(* tsf_* operators model the engine as the specification describes it.      *)
(***************************************************************************)
EXTENDS Integers, Sequences, FiniteSets, TLC

\* ------------------------------------------------------------------ bounds
NumChannels == 2        \* size N of the channel table
MaxInst == 2            \* SoundFont objects alive at once
MaxPool == 2            \* voices a pool holds in the model
MaxNotes == 2           \* voices an engine starts in all
MaxPos == 2             \* frames a voice is rendered for
MaxBytes == 16          \* longest 1-D buffer, in bytes
MaxRows == 2            \* longest first dimension of a 2-D buffer
MaxSlices == 2          \* slices one buffer is rendered in
ReleaseLen == 2         \* frames a released voice takes to reach silence

\* ------------------------------------------------------- immutable bank data
\* A region: the key range that triggers it.
Region(lo, hi) == [lokey |-> lo, hikey |-> hi]

Preset(b, n, nm, rs) == [bank |-> b, number |-> n, name |-> nm, regions |-> rs]

\* The bank most behaviours are explored on.  Flat index = position in the
\* sequence - 1.  Preset 1 is layered: key 60 triggers two regions.
Piano ==
    << Preset(0, 0, "piano", << Region(60, 61) >>),
       Preset(0, 1, "organ", << Region(60, 60), Region(60, 61) >>),
       Preset(128, 0, "drums", << Region(60, 60) >>) >>

\* The instrument banks a SoundFont is loaded from in the model.  (bank, number)
\* pairs are unique in a bank; names are not.
Banks ==
    { Piano,
      << Preset(0, 1, "organ", << Region(60, 61) >>),
         Preset(128, 0, "drums", << Region(60, 60) >>),
         Preset(1, 0, "organ", << Region(61, 61) >>) >>,
      << Preset(1, 1, "bass", << Region(60, 61) >>) >>,
      << Preset(128, 1, "kit", << Region(60, 60) >>),
         Preset(1, 128, "pad", << Region(60, 61) >>),
         Preset(0, 0, "kit", << Region(61, 61) >>),
         Preset(1, 0, "lead", << Region(61, 61) >>) >> }

Keys == {60, 61}
Velocities == {1}
BankNumbers == {0, 1, 128}
PresetNumbers == {0, 1}
PresetIndices == {-1, 0, 1, 2, 99}
ChannelArgs == -1 .. NumChannels
DrumBank == 128

\* ------------------------------------------------------------- engine state
OutputModes == {"TSF_STEREO_INTERLEAVED", "TSF_STEREO_UNWEAVED", "TSF_MONO"}

\* pan in halves (0 left, 1 centre, 2 right); the other values in whole units.
DefaultChannel ==
    [presetIndex |-> -1, bank |-> 0, pan |-> 1, volume |-> 1,
     pitchWheel |-> 8192, pitchRange |-> 2, tuning |-> 0]

Pans == {0, 1}
Volumes == {1, 2}
PitchWheels == {8192, 16383}
PitchRanges == {2, 12}
Tunings == {0, 1}
Gains == {1, 2}
SampleRates == {44100}
VoiceLimits == 0 .. MaxPool

NoLimit == -1

\* The mutable state of one engine object after a successful load.
NewEngine ==
    [outputmode |-> "TSF_STEREO_INTERLEAVED", samplerate |-> 44100, gain |-> 1,
     maxVoices |-> NoLimit, voices |-> << >>, playIndex |-> 0,
     channels |-> [c \in 0 .. NumChannels - 1 |-> DefaultChannel]]

Freed == [freed |-> TRUE]

VARIABLES
    presets,    \* the immutable preset data of the loaded bank
    ptr,        \* ptr[i]: SoundFont object i's `obj` pointer (0: no such object)
    heap,       \* heap[c]: the engine state stored at address c, or Freed
    out,        \* the buffer handed to the last render call, as 4-byte slots
    last,       \* the last call: method, object, arguments, result, error
    snap,       \* the object and engine state when the caller's sliced buffer began
    chunks,     \* frame counts of the accepted renders into slices of that buffer
    area        \* the slots of that buffer written so far, slice after slice

vars == << presets, ptr, heap, out, last, snap, chunks, area >>

Insts == 1 .. MaxInst
Cells == 1 .. MaxInst
Live(i) == ptr[i] # 0 /\ heap[ptr[i]] # Freed
Obj(i) == heap[ptr[i]]

\* ------------------------------------------------------------ small helpers
RECURSIVE SumSeq(_)
SumSeq(s) == IF s = << >> THEN 0 ELSE Head(s) + SumSeq(Tail(s))

Max(a, b) == IF a > b THEN a ELSE b

\* The content of a slot no call has written.
Unwritten == 0 - 1

NoBuf == [ndim |-> 0, format |-> "-", shape0 |-> 0, shape1 |-> 0]

Call(op, i, err, ret, a, b, c) ==
    [op |-> op, inst |-> i, err |-> err, ret |-> ret, a |-> a, b |-> b, c |-> c,
     str |-> "", buf |-> NoBuf]

\* ------------------------------------------------ engine: preset lookup
PresetCount == Len(presets)

ValidIndex(index) == index >= 0 /\ index < PresetCount

RECURSIVE FindPreset(_, _, _)
\* Linear search from position k (1-based); the flat index found, or -1.
FindPreset(bank, number, k) ==
    IF k > PresetCount THEN -1
    ELSE IF presets[k].bank = bank /\ presets[k].number = number THEN k - 1
    ELSE FindPreset(bank, number, k + 1)

tsf_get_presetindex(bank, number) == FindPreset(bank, number, 1)

tsf_get_presetcount == PresetCount

NullName == "<null>"

tsf_get_presetname(index) ==
    IF ValidIndex(index) THEN presets[index + 1].name ELSE NullName

\* The name of the preset the pair identifies, or null when no preset has it.
tsf_bank_get_presetname(bank, number) ==
    LET hits == { k \in 1 .. PresetCount :
                    presets[k].bank = bank /\ presets[k].number = number }
    IN IF hits = {} THEN NullName ELSE presets[CHOOSE k \in hits : TRUE].name

\* ------------------------------------------------ engine: voices
Sustaining(v) == v.phase = "sustain"

Voice(id, index, key, channel) ==
    [id |-> id, preset |-> index, key |-> key, channel |-> channel,
     phase |-> "sustain", pos |-> 0, rel |-> 0]

Release(v) == IF Sustaining(v) THEN [v EXCEPT !.phase = "release", !.rel = ReleaseLen]
              ELSE v

RemoveAt(s, k) == SubSeq(s, 1, k - 1) \o SubSeq(s, k + 1, Len(s))

\* The stealing policy: a voice in release phase first, else the oldest.  The
\* pool is kept in start order, so the oldest is the first.
Victim(voices) ==
    LET rel == { k \in 1 .. Len(voices) : ~Sustaining(voices[k]) }
    IN IF rel # {} THEN CHOOSE k \in rel : \A j \in rel : k <= j ELSE 1

RECURSIVE Steal(_, _)
Steal(voices, limit) ==
    IF limit = NoLimit \/ Len(voices) <= limit THEN voices
    ELSE Steal(RemoveAt(voices, Victim(voices)), limit)

\* The regions of a preset that a key triggers, in order.
Matching(index, key) ==
    SelectSeq(presets[index + 1].regions, LAMBDA r : r.lokey <= key /\ key <= r.hikey)

StartVoices(f, index, key, channel) ==
    LET n == Len(Matching(index, key))
        fresh == [k \in 1 .. n |-> Voice(f.playIndex + k - 1, index, key, channel)]
    IN [f EXCEPT !.voices = Steal(f.voices \o fresh, f.maxVoices),
                 !.playIndex = f.playIndex + n]

Ret(r, f) == [ret |-> r, f |-> f]

tsf_note_on(f, index, key, vel) ==
    IF ~ValidIndex(index) THEN Ret(0, f)
    ELSE Ret(1, StartVoices(f, index, key, -1))

tsf_bank_note_on(f, bank, number, key, vel) ==
    LET index == tsf_get_presetindex(bank, number)
    IN IF index = -1 THEN Ret(0, f) ELSE tsf_note_on(f, index, key, vel)

MapVoices(f, Op(_)) ==
    [f EXCEPT !.voices = [k \in 1 .. Len(f.voices) |-> Op(f.voices[k])]]

tsf_note_off_all(f) == MapVoices(f, Release)

tsf_note_off(f, index, key) ==
    MapVoices(f, LAMBDA v : IF v.preset = index /\ v.key = key THEN Release(v) ELSE v)

tsf_bank_note_off(f, bank, number, key) ==
    LET index == tsf_get_presetindex(bank, number)
    IN IF index = -1 THEN f ELSE tsf_note_off(f, index, key)

tsf_reset(f) ==
    [f EXCEPT !.voices = << >>,
              !.channels = [c \in 0 .. NumChannels - 1 |-> DefaultChannel]]

\* decibels to a linear factor, for the levels the model uses
DbToGain(db) == IF db >= 6 THEN 2 ELSE 1

GainsDb == {0, 6}

tsf_set_output(f, mode, rate, db) ==
    [f EXCEPT !.outputmode = mode, !.samplerate = rate, !.gain = DbToGain(db)]

tsf_set_volume(f, gain) == [f EXCEPT !.gain = gain]

tsf_set_max_voices(f, n) ==
    [f EXCEPT !.maxVoices = n, !.voices = Steal(f.voices, n)]

\* ------------------------------------------------ engine: channel table
ValidChannel(channel) == channel >= 0 /\ channel < NumChannels

SetChannel(f, channel, field, value) ==
    IF ~ValidChannel(channel) THEN Ret(0, f)
    ELSE Ret(1, [f EXCEPT !.channels[channel][field] = value])

tsf_channel_set_presetindex(f, channel, index) ==
    IF ~ValidChannel(channel) \/ ~ValidIndex(index) THEN Ret(0, f)
    ELSE SetChannel(f, channel, "presetIndex", index)

tsf_channel_set_bank_preset(f, channel, bank, number) ==
    LET index == tsf_get_presetindex(bank, number)
    IN IF ~ValidChannel(channel) \/ index = -1 THEN Ret(0, f)
       ELSE Ret(1, [f EXCEPT !.channels[channel].presetIndex = index,
                             !.channels[channel].bank = bank])

\* drum = 1 restricts the lookup to the percussion bank.
tsf_channel_set_presetnumber(f, channel, number, drum) ==
    IF ~ValidChannel(channel) THEN Ret(0, f)
    ELSE LET bank == IF drum = 1 THEN DrumBank ELSE f.channels[channel].bank
             index == tsf_get_presetindex(bank, number)
         IN IF index = -1 THEN Ret(0, f)
            ELSE SetChannel(f, channel, "presetIndex", index)

tsf_channel_set_bank(f, channel, bank) == SetChannel(f, channel, "bank", bank)

tsf_channel_set_pan(f, channel, pan) == SetChannel(f, channel, "pan", pan)

tsf_channel_set_volume(f, channel, volume) == SetChannel(f, channel, "volume", volume)

tsf_channel_set_pitchwheel(f, channel, wheel) ==
    SetChannel(f, channel, "pitchWheel", wheel)

tsf_channel_set_pitchrange(f, channel, range) ==
    SetChannel(f, channel, "pitchRange", range)

tsf_channel_set_tuning(f, channel, tuning) == SetChannel(f, channel, "tuning", tuning)

tsf_channel_note_on(f, channel, key, vel) ==
    IF ~ValidChannel(channel) THEN Ret(0, f)
    ELSE IF f.channels[channel].presetIndex = -1 THEN Ret(0, f)
    ELSE Ret(1, StartVoices(f, f.channels[channel].presetIndex, key, channel))

tsf_channel_note_off(f, channel, key) ==
    IF ~ValidChannel(channel) THEN f
    ELSE MapVoices(f, LAMBDA v : IF v.channel = channel /\ v.key = key
                                 THEN Release(v) ELSE v)

tsf_channel_note_off_all(f, channel) ==
    IF ~ValidChannel(channel) THEN f
    ELSE MapVoices(f, LAMBDA v : IF v.channel = channel THEN Release(v) ELSE v)

tsf_channel_sounds_off_all(f, channel) ==
    IF ~ValidChannel(channel) THEN f
    ELSE [f EXCEPT !.voices = SelectSeq(f.voices, LAMBDA v : v.channel # channel)]

\* ------------------------------------------------ engine: renderer
\* A voice sounds at frame t of a render call (t counted from 0).
Sounds(v, t) == Sustaining(v) \/ t < v.rel

\* The waveform of a voice, t frames after its cursor.
Wave(v, t) == ((v.key + v.pos + t) % 2) + 1

PanOf(f, v) == IF v.channel = -1 THEN 1 ELSE f.channels[v.channel].pan

VolumeOf(f, v) == IF v.channel = -1 THEN 1 ELSE f.channels[v.channel].volume

RECURSIVE Mix(_, _, _, _)
\* The sum over voices k.. of the pool of their contribution to one side
\* ("L" or "R") at frame t.
Mix(f, k, t, side) ==
    IF k > Len(f.voices) THEN 0
    ELSE LET v == f.voices[k]
             w == IF side = "L" THEN 2 - PanOf(f, v) ELSE PanOf(f, v)
         IN (IF Sounds(v, t) THEN Wave(v, t) * VolumeOf(f, v) * w * f.gain ELSE 0)
            + Mix(f, k + 1, t, side)

Left(f, t) == Mix(f, 1, t, "L")
Right(f, t) == Mix(f, 1, t, "R")

\* The float slots n frames occupy, in the configured layout.
Samples(f, n) ==
    IF f.outputmode = "TSF_MONO"
    THEN [s \in 1 .. n |-> Left(f, s - 1) + Right(f, s - 1)]
    ELSE IF f.outputmode = "TSF_STEREO_INTERLEAVED"
    THEN [s \in 1 .. 2 * n |-> IF s % 2 = 1 THEN Left(f, (s - 1) \div 2)
                                ELSE Right(f, (s - 1) \div 2)]
    ELSE [s \in 1 .. 2 * n |-> IF s <= n THEN Left(f, s - 1) ELSE Right(f, s - n - 1)]

Advance(v, n) ==
    IF Sustaining(v) THEN [v EXCEPT !.pos = v.pos + n]
    ELSE [v EXCEPT !.pos = v.pos + n, !.rel = Max(v.rel - n, 0)]

\* A voice whose envelope has reached silence leaves the pool.
Silent(v) == ~Sustaining(v) /\ v.rel = 0

Advanced(f, n) ==
    LET moved == [k \in 1 .. Len(f.voices) |-> Advance(f.voices[k], n)]
    IN [f EXCEPT !.voices = SelectSeq(moved, LAMBDA v : ~Silent(v))]

\* tsf_render_float(f, buffer, samples, 0): the engine afterwards and the slots
\* written from the start of the buffer.
tsf_render_float(f, n) == [f |-> Advanced(f, n), written |-> Samples(f, n)]

\* A copy of the session state; the preset data is shared.
tsf_copy(f) == f

\* ------------------------------------------------ SoundFont: shared steps
\* The bounds of the model: a call is taken only if it keeps within them.
Bounded(f) ==
    /\ Len(f.voices) <= MaxPool
    /\ f.playIndex <= MaxNotes
    /\ \A k \in 1 .. Len(f.voices) : f.voices[k].pos <= MaxPos

\* A call on object i that is not an accepted render: it leaves the engine as
\* f2 and is recorded as c.
Do(i, c, f2) ==
    /\ Bounded(f2)
    /\ heap' = [heap EXCEPT ![ptr[i]] = f2]
    /\ last' = c
    /\ out' = << >>
    /\ snap' = [inst |-> i, f |-> f2]
    /\ chunks' = << >>
    /\ area' = << >>
    /\ UNCHANGED << presets, ptr >>

\* `if (!tsf_...(...)) throw std::runtime_error(...)`
Failed(ret) == ret = 0

\* ------------------------------------------------ SoundFont::render
Formats == {"B", "f", "d"}

ItemSize(format) == IF format = "B" THEN 1 ELSE IF format = "f" THEN 4 ELSE 8

ByteLens == { n \in 0 .. MaxBytes : n % 2 = 0 }

Buf(d, fm, s0, s1) == [ndim |-> d, format |-> fm, shape0 |-> s0, shape1 |-> s1]

\* The buffer_info of the buffers handed to render: dimension count, format
\* and the first two extents.  Flat byte arrays of every even length, flat
\* arrays of other element types, float32 and other matrices, and arrays of
\* no and of three dimensions.
Buffers ==
    { Buf(1, "B", n, 0) : n \in ByteLens }
    \cup { Buf(1, "f", 2, 0), Buf(1, "d", 1, 0) }
    \cup { Buf(2, "f", r, c) : r \in 0 .. MaxRows, c \in 1 .. 3 }
    \cup { Buf(2, "B", 2, 2), Buf(2, "d", 1, 1), Buf(2, "B", 8, 1) }
    \cup { Buf(0, "f", 0, 0), Buf(0, "B", 0, 0), Buf(3, "f", 1, 2), Buf(3, "f", 2, 1),
           Buf(3, "B", 1, 2) }

\* The 4-byte slots of a buffer's memory.
Slots(b) ==
    LET items == IF b.ndim = 0 THEN 1
                 ELSE IF b.ndim = 1 THEN b.shape0
                 ELSE b.shape0 * b.shape1
    IN (items * ItemSize(b.format)) \div 4

output_channels(f) == IF f.outputmode = "TSF_MONO" THEN 1 ELSE 2

render_1d_any_length(f, b) == b.format # "B"

render_1d_throws(f, b) ==
    \/ b.format # "B"
    \/ b.shape0 % (4 * output_channels(f)) # 0

render_2d_any_width(f, b) ==
    \/ b.format # "f"
    \/ b.ndim # 2

render_2d_throws(f, b) ==
    \/ b.format # "f"
    \/ b.ndim # 2
    \/ b.shape1 # output_channels(f)

render_1d_samples_mono(f, b) == b.shape0 \div 4

render_1d_samples(f, b) == b.shape0 \div (4 * output_channels(f))

render_2d_samples(f, b) == b.shape0

render_throws(f, b) ==
    IF b.ndim = 1 THEN render_1d_throws(f, b) ELSE render_2d_throws(f, b)

render_samples(f, b) ==
    IF b.ndim = 1 THEN render_1d_samples(f, b) ELSE render_2d_samples(f, b)

\* The buffer's memory after the engine wrote `written` from its start.
Filled(b, written) ==
    [s \in 1 .. Slots(b) |-> IF s <= Len(written) THEN written[s] ELSE Unwritten]

\* render(buffer) on a buffer of its own: nothing is kept of it afterwards.
render(i, b) ==
    /\ Live(i)
    /\ LET f == Obj(i)
       IN IF render_throws(f, b)
          THEN /\ last' = [Call("render", i, TRUE, 0, 0, 0, 0) EXCEPT !.buf = b]
               /\ out' = Filled(b, << >>)
               /\ UNCHANGED << presets, ptr, heap, snap, chunks, area >>
          ELSE LET n == render_samples(f, b)
                   r == tsf_render_float(f, n)
               IN /\ Bounded(r.f)
                  /\ heap' = [heap EXCEPT ![ptr[i]] = r.f]
                  /\ last' = [Call("render", i, FALSE, 0, n, 0, 0) EXCEPT !.buf = b]
                  /\ out' = Filled(b, r.written)
                  /\ snap' = [inst |-> i, f |-> r.f]
                  /\ chunks' = << >>
                  /\ area' = << >>
                  /\ UNCHANGED << presets, ptr >>

\* render(buffer[a:b]) on the slice after the one rendered before, as the
\* caller who places an event inside one buffer does: the same method, with
\* what the slices hold kept in `area`.
render_slice(i, b) ==
    /\ Live(i)
    /\ snap.inst = i
    /\ Len(chunks) < MaxSlices
    /\ LET f == Obj(i)
       IN IF render_throws(f, b)
          THEN /\ last' = [Call("render", i, TRUE, 0, 0, 0, 0) EXCEPT !.buf = b]
               /\ out' = Filled(b, << >>)
               /\ UNCHANGED << presets, ptr, heap, snap, chunks, area >>
          ELSE LET n == render_samples(f, b)
                   r == tsf_render_float(f, n)
               IN /\ Bounded(r.f)
                  /\ heap' = [heap EXCEPT ![ptr[i]] = r.f]
                  /\ last' = [Call("render", i, FALSE, 0, n, 0, 0) EXCEPT !.buf = b]
                  /\ out' = Filled(b, r.written)
                  /\ chunks' = Append(chunks, n)
                  /\ area' = area \o Filled(b, r.written)
                  /\ UNCHANGED << presets, ptr, snap >>

\* ------------------------------------------------ SoundFont: configuration
reset_dropped(i) ==
    /\ Live(i)
    /\ Do(i, Call("reset", i, FALSE, 0, 0, 0, 0), Obj(i))

reset(i) ==
    /\ Live(i)
    /\ Do(i, Call("reset", i, FALSE, 0, 0, 0, 0), tsf_reset(Obj(i)))

set_output(i, mode, rate, db) ==
    /\ Live(i)
    /\ Do(i, [Call("set_output", i, FALSE, 0, rate, db, 0) EXCEPT !.str = mode],
          tsf_set_output(Obj(i), mode, rate, db))

set_volume(i, gain) ==
    /\ Live(i)
    /\ Do(i, Call("set_volume", i, FALSE, 0, gain, 0, 0), tsf_set_volume(Obj(i), gain))

set_max_voices_dropped(i, n) ==
    /\ Live(i)
    /\ Do(i, Call("set_max_voices", i, FALSE, 0, n, 0, 0), Obj(i))

set_max_voices(i, n) ==
    /\ Live(i)
    /\ Do(i, Call("set_max_voices", i, FALSE, 0, n, 0, 0),
          tsf_set_max_voices(Obj(i), n))

\* ------------------------------------------------ SoundFont: direct notes
note_on_never_throws(ret) == FALSE

note_on_throws(ret) == ret = 0

note_on(i, index, key, vel) ==
    /\ Live(i)
    /\ LET r == tsf_note_on(Obj(i), index, key, vel)
       IN Do(i, Call("note_on", i, note_on_throws(r.ret), r.ret, index, key, vel), r.f)

note_on_bank_throws(ret) == ret = 0

note_on_bank(i, bank, number, key, vel) ==
    /\ Live(i)
    /\ LET r == tsf_bank_note_on(Obj(i), bank, number, key, vel)
       IN Do(i, Call("note_on_bank", i, note_on_bank_throws(r.ret), r.ret,
                     bank, number, key), r.f)

note_off_all(i) ==
    /\ Live(i)
    /\ Do(i, Call("note_off_all", i, FALSE, 0, 0, 0, 0), tsf_note_off_all(Obj(i)))

note_off(i, index, key) ==
    /\ Live(i)
    /\ Do(i, Call("note_off", i, FALSE, 0, index, key, 0),
          tsf_note_off(Obj(i), index, key))

\* note_off written like note_on: the pair is looked up and a miss is thrown.
note_off_bank_checked(i, bank, number, key) ==
    /\ Live(i)
    /\ Do(i, Call("note_off_bank", i, tsf_get_presetindex(bank, number) = -1, 0,
                  bank, number, key),
          tsf_bank_note_off(Obj(i), bank, number, key))

note_off_bank(i, bank, number, key) ==
    /\ Live(i)
    /\ Do(i, Call("note_off_bank", i, FALSE, 0, bank, number, key),
          tsf_bank_note_off(Obj(i), bank, number, key))

\* ------------------------------------------------ SoundFont: channels
\* A channel setter: the call is recorded with its channel as argument a.
Setter(i, op, r, channel, x, y) ==
    Do(i, Call(op, i, Failed(r.ret), r.ret, channel, x, y), r.f)

set_channel_preset_index(i, channel, index) ==
    /\ Live(i)
    /\ Setter(i, "set_channel_preset_index",
              tsf_channel_set_presetindex(Obj(i), channel, index), channel, index, 0)

set_channel_preset_number(i, channel, number, drum) ==
    /\ Live(i)
    /\ Setter(i, "set_channel_preset_number",
              tsf_channel_set_presetnumber(Obj(i), channel, number, IF drum THEN 1 ELSE 0),
              channel, number, IF drum THEN 1 ELSE 0)

set_channel_bank(i, channel, bank) ==
    /\ Live(i)
    /\ Setter(i, "set_channel_bank",
              tsf_channel_set_bank(Obj(i), channel, bank), channel, bank, 0)

set_channel_bank_preset(i, channel, bank, number) ==
    /\ Live(i)
    /\ Setter(i, "set_channel_bank_preset",
              tsf_channel_set_bank_preset(Obj(i), channel, bank, number),
              channel, bank, number)

set_channel_pan(i, channel, pan) ==
    /\ Live(i)
    /\ Setter(i, "set_channel_pan",
              tsf_channel_set_pan(Obj(i), channel, pan), channel, pan, 0)

set_channel_volume(i, channel, volume) ==
    /\ Live(i)
    /\ Setter(i, "set_channel_volume",
              tsf_channel_set_volume(Obj(i), channel, volume), channel, volume, 0)

set_channel_pitch_wheel(i, channel, wheel) ==
    /\ Live(i)
    /\ Setter(i, "set_channel_pitch_wheel",
              tsf_channel_set_pitchwheel(Obj(i), channel, wheel), channel, wheel, 0)

set_channel_pitch_range(i, channel, range) ==
    /\ Live(i)
    /\ Setter(i, "set_channel_pitch_range",
              tsf_channel_set_pitchrange(Obj(i), channel, range), channel, range, 0)

set_channel_tuning(i, channel, tuning) ==
    /\ Live(i)
    /\ Setter(i, "set_channel_tuning",
              tsf_channel_set_tuning(Obj(i), channel, tuning), channel, tuning, 0)

channel_note_on_never_throws(ret) == FALSE

channel_note_on_throws(ret) == ret = 0

channel_note_on(i, channel, key, vel) ==
    /\ Live(i)
    /\ LET r == tsf_channel_note_on(Obj(i), channel, key, vel)
       IN Do(i, Call("channel_note_on", i, channel_note_on_throws(r.ret), r.ret,
                     channel, key, vel), r.f)

\* The three methods below return void and hold no throw statement.
channel_note_off(i, channel, key) ==
    /\ Live(i)
    /\ Do(i, Call("channel_note_off", i, FALSE, 0, channel, key, 0),
          tsf_channel_note_off(Obj(i), channel, key))

channel_note_off_all(i, channel) ==
    /\ Live(i)
    /\ Do(i, Call("channel_note_off_all", i, FALSE, 0, channel, 0, 0),
          tsf_channel_note_off_all(Obj(i), channel))

channel_sounds_off(i, channel) ==
    /\ Live(i)
    /\ Do(i, Call("channel_sounds_off", i, FALSE, 0, channel, 0, 0),
          tsf_channel_sounds_off_all(Obj(i), channel))

\* ------------------------------------------------ SoundFont: preset queries
\* A query: the engine is left as it is.
Query(i, c) == Do(i, c, Obj(i))

get_preset_index_swapped(bank, number) == tsf_get_presetindex(number, bank)

get_preset_index_ret(bank, number) == tsf_get_presetindex(bank, number)

get_preset_index(i, bank, number) ==
    /\ Live(i)
    /\ Query(i, Call("get_preset_index", i, FALSE, get_preset_index_ret(bank, number),
                     bank, number, 0))

get_preset_count(i) ==
    /\ Live(i)
    /\ Query(i, Call("get_preset_count", i, FALSE, tsf_get_presetcount, 0, 0, 0))

get_preset_name_ret(index) == tsf_get_presetname(index)

get_preset_name_bank_ret(bank, number) == tsf_bank_get_presetname(bank, number)

\* std::string built from the engine's char pointer.  A null pointer is
\* undefined behaviour: the call throws or returns some other string.
Named(i, op, name, a, b) ==
    IF name # NullName
    THEN Query(i, [Call(op, i, FALSE, 0, a, b, 0) EXCEPT !.str = name])
    ELSE \E threw \in BOOLEAN :
           Query(i, [Call(op, i, threw, 0, a, b, 0) EXCEPT !.str = "?"])

get_preset_name(i, index) ==
    /\ Live(i)
    /\ Named(i, "get_preset_name", get_preset_name_ret(index), index, 0)

get_preset_name_bank(i, bank, number) ==
    /\ Live(i)
    /\ Named(i, "get_preset_name_bank", get_preset_name_bank_ret(bank, number),
             bank, number)

\* ------------------------------------------------ SoundFont: copy, destroy
FreeCells == { c \in Cells : heap[c] = Freed }

\* `obj = tsf_copy(other.obj)`: the new object's pointer, given the other
\* object's pointer and the address of the engine's copy.
copy_obj_shallow(other, copied) == other

copy_obj(other, copied) == copied

\* SoundFont(const SoundFont &other): object j is built from object i.  The
\* engine returns null when it cannot allocate the copy.
SoundFont_copy(j, i) ==
    /\ ptr[j] = 0
    /\ Live(i)
    /\ FreeCells # {}
    /\ \E ok \in BOOLEAN :
         IF ok
         THEN LET c == CHOOSE x \in FreeCells : \A y \in FreeCells : x <= y
              IN /\ heap' = [heap EXCEPT ![c] = tsf_copy(Obj(i))]
                 /\ ptr' = [ptr EXCEPT ![j] = copy_obj(ptr[i], c)]
                 /\ last' = Call("SoundFont_copy", j, FALSE, 0, i, 0, 0)
                 /\ snap' = [inst |-> j, f |-> tsf_copy(Obj(i))]
         ELSE /\ UNCHANGED << heap, ptr >>
              /\ last' = Call("SoundFont_copy", j, TRUE, 0, i, 0, 0)
              /\ snap' = [inst |-> i, f |-> Obj(i)]
    /\ out' = << >>
    /\ chunks' = << >>
    /\ area' = << >>
    /\ UNCHANGED presets

\* ~SoundFont(): tsf_close(obj).
SoundFont_dtor(i) ==
    /\ Live(i)
    /\ \E k \in Insts : k # i /\ Live(k)
    /\ heap' = [heap EXCEPT ![ptr[i]] = Freed]
    /\ ptr' = [ptr EXCEPT ![i] = 0]
    /\ last' = Call("SoundFont_dtor", i, FALSE, 0, 0, 0, 0)
    /\ snap' = [inst |-> 0, f |-> Freed]
    /\ out' = << >>
    /\ chunks' = << >>
    /\ area' = << >>
    /\ UNCHANGED presets

\* ------------------------------------------------ specifications
\* One SoundFont object, loaded from bank.
Loaded(bank) ==
    /\ presets = bank
    /\ ptr = [i \in Insts |-> IF i = 1 THEN 1 ELSE 0]
    /\ heap = [c \in Cells |-> IF c = 1 THEN NewEngine ELSE Freed]
    /\ out = << >>
    /\ last = Call("SoundFont", 1, FALSE, 0, 0, 0, 0)
    /\ snap = [inst |-> 1, f |-> NewEngine]
    /\ chunks = << >>
    /\ area = << >>

Init == \E bank \in Banks : Loaded(bank)

InitPiano == Loaded(Piano)

Configure ==
    \/ \E i \in Insts, m \in OutputModes, r \in SampleRates, db \in GainsDb :
         set_output(i, m, r, db)
    \/ \E i \in Insts, g \in Gains : set_volume(i, g)

DirectOn ==
    \/ \E i \in Insts, x \in PresetIndices, k \in Keys, v \in Velocities :
         note_on(i, x, k, v)
    \/ \E i \in Insts, b \in BankNumbers, n \in PresetNumbers, k \in Keys,
          v \in Velocities : note_on_bank(i, b, n, k, v)

DirectOff ==
    \/ \E i \in Insts : note_off_all(i)
    \/ \E i \in Insts, x \in PresetIndices, k \in Keys : note_off(i, x, k)
    \/ \E i \in Insts, b \in BankNumbers, n \in PresetNumbers, k \in Keys :
         note_off_bank(i, b, n, k)

ChannelPresets ==
    \/ \E i \in Insts, c \in ChannelArgs, x \in PresetIndices :
         set_channel_preset_index(i, c, x)
    \/ \E i \in Insts, c \in ChannelArgs, n \in PresetNumbers, d \in BOOLEAN :
         set_channel_preset_number(i, c, n, d)
    \/ \E i \in Insts, c \in ChannelArgs, b \in BankNumbers : set_channel_bank(i, c, b)
    \/ \E i \in Insts, c \in ChannelArgs, b \in BankNumbers, n \in PresetNumbers :
         set_channel_bank_preset(i, c, b, n)

ChannelControls ==
    \/ \E i \in Insts, c \in ChannelArgs, x \in Pans : set_channel_pan(i, c, x)
    \/ \E i \in Insts, c \in ChannelArgs, x \in Volumes : set_channel_volume(i, c, x)
    \/ \E i \in Insts, c \in ChannelArgs, x \in PitchWheels :
         set_channel_pitch_wheel(i, c, x)
    \/ \E i \in Insts, c \in ChannelArgs, x \in PitchRanges :
         set_channel_pitch_range(i, c, x)
    \/ \E i \in Insts, c \in ChannelArgs, x \in Tunings : set_channel_tuning(i, c, x)

ChannelNotes ==
    \/ \E i \in Insts, c \in ChannelArgs, k \in Keys, v \in Velocities :
         channel_note_on(i, c, k, v)
    \/ \E i \in Insts, c \in ChannelArgs, k \in Keys : channel_note_off(i, c, k)
    \/ \E i \in Insts, c \in ChannelArgs : channel_note_off_all(i, c)
    \/ \E i \in Insts, c \in ChannelArgs : channel_sounds_off(i, c)

Queries ==
    \/ \E i \in Insts, b \in BankNumbers, n \in PresetNumbers : get_preset_index(i, b, n)
    \/ \E i \in Insts : get_preset_count(i)
    \/ \E i \in Insts, x \in PresetIndices : get_preset_name(i, x)
    \/ \E i \in Insts, b \in BankNumbers, n \in PresetNumbers :
         get_preset_name_bank(i, b, n)

Objects ==
    \/ \E j \in Insts, i \in Insts : SoundFont_copy(j, i)
    \/ \E i \in Insts : SoundFont_dtor(i)

\* Buffer formats: every buffer shape, under each output layout, with voices
\* sounding and released.
NextFormat ==
    \/ \E i \in Insts, b \in Buffers : render(i, b)
    \/ \E i \in Insts, m \in OutputModes, r \in SampleRates, db \in GainsDb :
         set_output(i, m, r, db)
    \/ \E i \in Insts, x \in {0, 1}, k \in Keys, v \in Velocities : note_on(i, x, k, v)
    \/ \E i \in Insts : note_off_all(i)

SpecFormat == InitPiano /\ [][NextFormat]_vars

\* The buffers of whole frames, and one byte array that holds no whole frame.
FrameBuffers ==
    { b \in Buffers : \/ b.ndim = 1 /\ b.format = "B" /\ b.shape0 % 4 = 0
                      \/ b.ndim = 2 /\ b.format = "f" /\ b.shape1 < 3 }
    \cup { Buf(1, "B", 6, 0) }

\* Rendering whole and sliced buffers between note and output events.
NextRender ==
    \/ \E i \in Insts, b \in FrameBuffers : render(i, b)
    \/ \E i \in Insts, b \in FrameBuffers : render_slice(i, b)
    \/ \E i \in Insts, m \in OutputModes, r \in SampleRates, db \in GainsDb :
         set_output(i, m, r, db)
    \/ \E i \in Insts, x \in {0, 1, 99}, k \in Keys, v \in Velocities :
         note_on(i, x, k, v)
    \/ \E i \in Insts : note_off_all(i)

SpecRender == InitPiano /\ [][NextRender]_vars

\* Channel routing: presets assigned to valid and invalid channels, notes
\* through channels, reset.
NextChannel ==
    \/ \E i \in Insts, c \in ChannelArgs, x \in {0, 99} :
         set_channel_preset_index(i, c, x)
    \/ \E i \in Insts, c \in ChannelArgs, d \in BOOLEAN :
         set_channel_preset_number(i, c, 1, d)
    \/ \E i \in Insts, c \in ChannelArgs : set_channel_bank(i, c, 1)
    \/ \E i \in Insts, c \in ChannelArgs, n \in PresetNumbers :
         set_channel_bank_preset(i, c, 0, n)
    \/ \E i \in Insts, c \in ChannelArgs, k \in Keys, v \in Velocities :
         channel_note_on(i, c, k, v)
    \/ \E i \in Insts, c \in ChannelArgs : channel_note_off(i, c, 60)
    \/ \E i \in Insts, c \in ChannelArgs : channel_note_off_all(i, c)
    \/ \E i \in Insts, c \in ChannelArgs : channel_sounds_off(i, c)
    \/ \E i \in Insts : reset(i)

SpecChannel == InitPiano /\ [][NextChannel]_vars

\* Channel controls: every setter, on the first channel and on no channel,
\* notes in both addressing modes, rendering, reset.
NextControls ==
    \/ \E i \in Insts, c \in {0, NumChannels} : set_channel_preset_index(i, c, 1)
    \/ \E i \in Insts, c \in {0, NumChannels} : set_channel_pan(i, c, 0)
    \/ \E i \in Insts, c \in {0, NumChannels} : set_channel_volume(i, c, 2)
    \/ \E i \in Insts, c \in {0, NumChannels} : set_channel_pitch_wheel(i, c, 16383)
    \/ \E i \in Insts, c \in {0, NumChannels} : set_channel_pitch_range(i, c, 12)
    \/ \E i \in Insts, c \in {0, NumChannels} : set_channel_tuning(i, c, 1)
    \/ \E i \in Insts, v \in Velocities : channel_note_on(i, 0, 60, v)
    \/ \E i \in Insts, v \in Velocities : note_on(i, 0, 61, v)
    \/ \E i \in Insts : note_off_all(i)
    \/ \E i \in Insts : render(i, Buf(1, "B", 8, 0))
    \/ \E i \in Insts : reset(i)

SpecControls == InitPiano /\ [][NextControls]_vars

\* The voice pool: limits, notes on and off in both direct forms and through
\* a channel, rendering.
NextVoices ==
    \/ \E i \in Insts, n \in VoiceLimits : set_max_voices(i, n)
    \/ \E i \in Insts, x \in PresetIndices, k \in Keys, v \in Velocities :
         note_on(i, x, k, v)
    \/ \E i \in Insts, b \in BankNumbers, n \in PresetNumbers, v \in Velocities :
         note_on_bank(i, b, n, 60, v)
    \/ \E i \in Insts, x \in {0, 1}, k \in Keys : note_off(i, x, k)
    \/ \E i \in Insts : set_channel_preset_index(i, 0, 0)
    \/ \E i \in Insts, v \in Velocities : channel_note_on(i, 0, 61, v)
    \/ \E i \in Insts : render(i, Buf(1, "B", 8, 0))

SpecVoices == InitPiano /\ [][NextVoices]_vars

\* Two objects: copies made and destroyed, and on each object a note on and
\* off, a channel change, an output change, a reset and a render.
NextClone ==
    \/ \E j \in Insts, i \in Insts : SoundFont_copy(j, i)
    \/ \E i \in Insts : SoundFont_dtor(i)
    \/ \E i \in Insts, v \in Velocities : note_on(i, 0, 60, v)
    \/ \E i \in Insts : note_off_all(i)
    \/ \E i \in Insts : set_channel_pan(i, 0, 0)
    \/ \E i \in Insts, r \in SampleRates : set_output(i, "TSF_MONO", r, 6)
    \/ \E i \in Insts : reset(i)
    \/ \E i \in Insts : render(i, Buf(1, "B", 8, 0))

SpecClone == InitPiano /\ [][NextClone]_vars

\* Releasing notes: direct notes on every preset, the three forms of note_off
\* with indices and pairs both present and absent, a reset, and a render of
\* one frame, which moves release phases on and drops the voices gone silent.
NextRelease ==
    \/ \E i \in Insts, x \in {0, 1, 2}, k \in Keys, v \in Velocities :
         note_on(i, x, k, v)
    \/ \E i \in Insts : note_off_all(i)
    \/ \E i \in Insts, x \in PresetIndices, k \in Keys : note_off(i, x, k)
    \/ \E i \in Insts, b \in BankNumbers, n \in PresetNumbers, k \in Keys :
         note_off_bank(i, b, n, k)
    \/ \E i \in Insts : reset(i)
    \/ \E i \in Insts : render(i, Buf(1, "B", 8, 0))

SpecRelease == InitPiano /\ [][NextRelease]_vars

LookupNumbers == {0, 1, 128}

\* Preset lookups on every bank.
NextLookup ==
    \/ \E i \in Insts, b \in LookupNumbers, n \in LookupNumbers :
         get_preset_index(i, b, n)
    \/ \E i \in Insts : get_preset_count(i)
    \/ \E i \in Insts, x \in PresetIndices \cup {3} : get_preset_name(i, x)
    \/ \E i \in Insts, b \in LookupNumbers, n \in LookupNumbers :
         get_preset_name_bank(i, b, n)

SpecLookup == Init /\ [][NextLookup]_vars

\* Every method of SoundFont, on one bank.
Next ==
    \/ \E i \in Insts, b \in FrameBuffers : render(i, b)
    \/ \E i \in Insts, b \in FrameBuffers : render_slice(i, b)
    \/ \E i \in Insts : reset(i)
    \/ \E i \in Insts, n \in VoiceLimits : set_max_voices(i, n)
    \/ Configure
    \/ DirectOn
    \/ DirectOff
    \/ ChannelPresets
    \/ ChannelControls
    \/ ChannelNotes
    \/ Queries
    \/ Objects

Spec == Init /\ [][Next]_vars

\* ------------------------------------------------ claims
\* The channel count of an output layout, as the claims state it.
LayoutChannels(mode) ==
    CASE mode = "TSF_MONO" -> 1
      [] mode = "TSF_STEREO_INTERLEAVED" -> 2
      [] mode = "TSF_STEREO_UNWEAVED" -> 2

\* The buffers the claim lists as rejected under a layout of ch channels.
ListedAsRejected(b, ch) ==
    \/ b.ndim = 1 /\ b.format # "B"
    \/ b.ndim = 1 /\ b.format = "B" /\ b.shape0 % (4 * ch) # 0
    \/ b.ndim # 1 /\ b.format # "f"
    \/ b.ndim \notin {1, 2}
    \/ b.ndim = 2 /\ b.shape1 # ch

\* C1: a render call whose buffer is one of the rejected kinds reports an
\* error, writes no slot of the buffer and leaves the engine (voice pool,
\* channel table, configuration) as it was.
C1_RejectedRenderChangesNothing ==
    [][ (last'.op = "render"
         /\ ListedAsRejected(last'.buf, LayoutChannels(Obj(last'.inst).outputmode)))
        => /\ last'.err
           /\ heap' = heap
           /\ Len(out') = Slots(last'.buf)
           /\ \A s \in 1 .. Len(out') : out'[s] = Unwritten ]_vars

\* A 12-byte array was refused under a stereo layout while a voice sounded.
C1_Witness ==
    /\ last.op = "render" /\ last.err
    /\ last.buf = Buf(1, "B", 12, 0)
    /\ Obj(1).outputmode # "TSF_MONO"
    /\ Len(Obj(1).voices) > 0
    /\ out = << Unwritten, Unwritten, Unwritten >>

\* The frame count the claim gives an accepted buffer.
ClaimedFrames(b, ch) == IF b.ndim = 1 THEN b.shape0 \div (4 * ch) ELSE b.shape0

\* C2: an accepted render call advances every voice of the pool by exactly
\* sampleCount frames, sampleCount = bytes / (4 x channels) for a byte array
\* and the first dimension for a float32 matrix, channels being those of the
\* layout in force when the call starts.  A voice that leaves the pool in the
\* call is one whose release ended within those frames.
C2_RenderAdvancesBySampleCount ==
    [][ (last'.op = "render" /\ ~last'.err)
        => LET f == Obj(last'.inst)
               g == heap'[ptr[last'.inst]]
               n == ClaimedFrames(last'.buf, LayoutChannels(f.outputmode))
           IN /\ \A k \in 1 .. Len(g.voices) :
                   \E j \in 1 .. Len(f.voices) :
                      /\ f.voices[j].id = g.voices[k].id
                      /\ g.voices[k].pos = f.voices[j].pos + n
              /\ \A j \in 1 .. Len(f.voices) :
                   \/ \E k \in 1 .. Len(g.voices) : g.voices[k].id = f.voices[j].id
                   \/ ~Sustaining(f.voices[j]) /\ f.voices[j].rel <= n ]_vars

\* A 16-byte array was rendered under the non-interleaved stereo layout and a
\* voice stands two frames on.
C2_Witness ==
    /\ last.op = "render" /\ ~last.err
    /\ last.buf = Buf(1, "B", 16, 0)
    /\ Obj(1).outputmode = "TSF_STEREO_UNWEAVED"
    /\ \E k \in 1 .. Len(Obj(1).voices) : Obj(1).voices[k].pos = 2

\* What one render call of the frames of both slices leaves, from the state
\* the sliced buffer began in.
OneCall == tsf_render_float(snap.f, SumSeq(chunks))

\* C7 as stated: two accepted renders of k and N-k frames into adjacent slices
\* leave the buffer and the voices as one render of N frames does.
C7_SplitEqualsWhole ==
    Len(chunks) >= 2 => /\ area = OneCall.written
                       /\ Obj(snap.inst) = OneCall.f

\* C7 amended: the voices are as one render of N frames leaves them under
\* every layout; the buffer is too under the mono and the interleaved layout,
\* and under the non-interleaved one when a slice is empty.
C7_SplitEqualsWholeInterleaved ==
    Len(chunks) >= 2
    => /\ Obj(snap.inst) = OneCall.f
       /\ (\/ snap.f.outputmode # "TSF_STEREO_UNWEAVED"
           \/ Cardinality({ k \in 1 .. Len(chunks) : chunks[k] # 0 }) <= 1)
          => area = OneCall.written

\* Two slices of one frame each were rendered, interleaved, with a voice
\* sounding in both.
C7_Witness ==
    /\ chunks = << 1, 1 >>
    /\ snap.f.outputmode = "TSF_STEREO_INTERLEAVED"
    /\ Len(area) = 4
    /\ area[1] > 0 /\ area[3] > 0


\* The operations that take a channel.
ChannelOps ==
    { "set_channel_preset_index", "set_channel_preset_number", "set_channel_bank",
      "set_channel_bank_preset", "set_channel_pan", "set_channel_volume",
      "set_channel_pitch_wheel", "set_channel_pitch_range", "set_channel_tuning",
      "channel_note_on", "channel_note_off", "channel_note_off_all",
      "channel_sounds_off" }

InRange(channel) == 0 <= channel /\ channel < NumChannels

\* C3 as stated: every operation that takes a channel, given a channel outside
\* [0, N), reports an error and leaves the channel table and the voices as
\* they were.
C3_InvalidChannelReported ==
    [][ (last'.op \in ChannelOps /\ ~InRange(last'.a))
        => last'.err /\ heap' = heap ]_vars

\* The pair (bank, number) names a preset of the loaded bank.
Present(bank, number) ==
    \E k \in 1 .. Len(presets) : presets[k].bank = bank /\ presets[k].number = number

\* C4: a note-on by preset index or by (bank, program) that names no preset of
\* the loaded bank reports an error, creates no voice and leaves the voices
\* there are as they were.
C4_UnresolvedNoteOnFails ==
    [][ (\/ last'.op = "note_on" /\ (last'.a < 0 \/ last'.a >= Len(presets))
         \/ last'.op = "note_on_bank" /\ ~Present(last'.a, last'.b))
        => /\ last'.err
           /\ heap'[ptr[last'.inst]].voices = Obj(last'.inst).voices
           /\ heap'[ptr[last'.inst]].playIndex = Obj(last'.inst).playIndex ]_vars

\* Index 99 was refused while a voice sounded.
C4_Witness ==
    /\ last.op = "note_on" /\ last.a = 99 /\ last.err
    /\ Len(Obj(1).voices) > 0

\* The voices of g that f did not hold.
NewVoices(f, g) ==
    SelectSeq(g.voices, LAMBDA v : \A j \in 1 .. Len(f.voices) : f.voices[j].id # v.id)

\* C5: channelNoteOn on a valid channel that holds no preset reports an error
\* and creates no voice; on a channel that holds one it reports none, and the
\* voices it starts play that preset on that channel.
C5_ChannelNoteOnNeedsPreset ==
    [][ (last'.op = "channel_note_on" /\ InRange(last'.a))
        => LET f == Obj(last'.inst)
               g == heap'[ptr[last'.inst]]
               held == f.channels[last'.a].presetIndex
           IN IF held = -1
              THEN last'.err /\ g.voices = f.voices /\ g.playIndex = f.playIndex
              ELSE /\ ~last'.err
                   /\ g.playIndex - f.playIndex
                        = Cardinality({ r \in 1 .. Len(presets[held + 1].regions) :
                                          /\ presets[held + 1].regions[r].lokey <= last'.b
                                          /\ last'.b <= presets[held + 1].regions[r].hikey })
                   /\ \A k \in 1 .. Len(NewVoices(f, g)) :
                        /\ NewVoices(f, g)[k].preset = held
                        /\ NewVoices(f, g)[k].channel = last'.a
                        /\ NewVoices(f, g)[k].key = last'.b ]_vars

\* A note was refused on a channel without preset after another channel,
\* holding one, had started a voice.
C5_Witness ==
    /\ last.op = "channel_note_on" /\ last.err /\ InRange(last.a)
    /\ Obj(1).channels[last.a].presetIndex = -1
    /\ \E c \in 0 .. NumChannels - 1 : Obj(1).channels[c].presetIndex # -1
    /\ Len(Obj(1).voices) > 0

IdsOf(voices) == { voices[k].id : k \in 1 .. Len(voices) }

WithId(voices, id) == CHOOSE v \in { voices[k] : k \in 1 .. Len(voices) } : v.id = id

\* The calls that may stop voices to keep to the limit.
LimitOps == { "set_max_voices", "note_on", "note_on_bank", "channel_note_on" }

C8_ResetRestoresDefaults ==
    last.op = "reset"
    => /\ ~last.err
       /\ Obj(last.inst).voices = << >>
       /\ \A c \in 0 .. NumChannels - 1 :
            LET ch == Obj(last.inst).channels[c]
            IN /\ ch.presetIndex = -1
               /\ ch.pan = 1
               /\ ch.volume = 1
               /\ ch.pitchWheel = 8192
               /\ ch.pitchRange = 2
               /\ ch.tuning = 0

\* Reset was called after two voices had been started.
C8_Witness ==
    /\ last.op = "reset"
    /\ Obj(1).playIndex = 2


\* C9: a call on one object leaves every other object's pointer and engine
\* (voice pool, channel table, output configuration) as they were, whichever
\* of the two is the copy; a copy that fails reports an error and changes
\* nothing.
C9_ObjectsIndependent ==
    [][ /\ \A i \in Insts : Live(i) /\ last'.inst # i
             => ptr'[i] = ptr[i] /\ heap'[ptr[i]] = heap[ptr[i]]
        /\ (last'.op = "SoundFont_copy" /\ ptr'[last'.inst] = 0)
             => last'.err /\ heap' = heap /\ ptr' = ptr ]_vars

\* The copy started a voice the original does not hold.
C9_Witness ==
    /\ Live(1) /\ Live(2)
    /\ last.op = "note_on" /\ last.inst = 2
    /\ Len(Obj(2).voices) = 1
    /\ Obj(1).voices = << >>

\* C10: for a pair present in the bank, get_preset_index returns an index in
\* [0, count) and both name lookups give the name of the preset that has the
\* pair; for a pair not present it returns -1; in neither case an error.
C10_IndexAndNamesAgree ==
    last.op = "get_preset_index"
    => /\ ~last.err
       /\ IF Present(last.a, last.b)
          THEN /\ 0 <= last.ret /\ last.ret < tsf_get_presetcount
               /\ get_preset_name_ret(last.ret) = get_preset_name_bank_ret(last.a, last.b)
               /\ \A k \in 1 .. Len(presets) :
                    presets[k].bank = last.a /\ presets[k].number = last.b
                    => get_preset_name_ret(last.ret) = presets[k].name
          ELSE last.ret = -1

\* A pair was found at index 2.
C10_Witness ==
    /\ last.op = "get_preset_index"
    /\ Present(last.a, last.b)
    /\ last.ret = 2

\* The three forms of note_off.
ReleaseOps == { "note_off_all", "note_off", "note_off_bank" }

\* Voice v is one the note_off call c names: any voice, the voices of a preset
\* index on a key, or the voices on a key of the preset that has the pair.
Named_by(c, v) ==
    \/ c.op = "note_off_all"
    \/ c.op = "note_off" /\ v.preset = c.a /\ v.key = c.b
    \/ /\ c.op = "note_off_bank"
       /\ presets[v.preset + 1].bank = c.a
       /\ presets[v.preset + 1].number = c.b
       /\ v.key = c.c

\* C11: a note_off call, in any of its three forms, reports no error, also
\* when it names no voice; it leaves the pool with the same voices in the
\* same order; each voice it names is afterwards in release phase and still
\* sounding, with its identity and playback position kept; every voice it
\* does not name, and everything else in the engine, is unchanged.
C11_NoteOffReleases ==
    [][ last'.op \in ReleaseOps
        => LET f == Obj(last'.inst)
               g == heap'[ptr[last'.inst]]
           IN /\ ~last'.err
              /\ Len(g.voices) = Len(f.voices)
              /\ [g EXCEPT !.voices = f.voices] = f
              /\ \A k \in 1 .. Len(f.voices) :
                   LET v == f.voices[k]
                       u == g.voices[k]
                   IN IF Named_by(last', v)
                      THEN /\ ~Sustaining(u)
                           /\ Sounds(u, 0)
                           /\ u.id = v.id /\ u.preset = v.preset /\ u.key = v.key
                           /\ u.channel = v.channel /\ u.pos = v.pos
                           /\ ~Sustaining(v) => u = v
                      ELSE u = v ]_vars

\* Of two voices, note_off by preset index and key has just released the
\* first, which it names, and left the second, on another key, sustaining.
C11_Witness ==
    /\ last.op = "note_off"
    /\ Len(Obj(1).voices) = 2
    /\ Named_by(last, Obj(1).voices[1])
    /\ ~Sustaining(Obj(1).voices[1])
    /\ Obj(1).voices[1].rel = ReleaseLen
    /\ ~Named_by(last, Obj(1).voices[2])
    /\ Sustaining(Obj(1).voices[2])

====
